---- MODULE Spec2Model ----
(***************************************************************************)
(* A component that calls three hooks of src/index.ts: useBox, which       *)
(* composes useLocation and useSize, each over its own useRefCallback;     *)
(* useOnKeyPress; and useZoom, which calls useOnMouseWheel over a          *)
(* useRefCallback of its own. The hooks share the renders and the flushes  *)
(* of the component and nothing else.                                      *)
(*                                                                         *)
(* React's part is modelled as the library documents it:                   *)
(*  - a useState hook's value is the fold of the updates queued on it; a   *)
(*    render reads it and the closures of that render (effects, returned   *)
(*    values) keep what the render read;                                   *)
(*  - after a render commits, the passive effects whose dependencies       *)
(*    changed are flushed in two passes: every cleanup first, then every   *)
(*    effect body; the flush is synchronous and always ends before the     *)
(*    next render or the unmount starts;                                   *)
(*  - useMemo/useCallback keep their value while the dependencies are      *)
(*    identical (Object.is).                                               *)
(* The browser's part: a connected ResizeObserver reports the content box  *)
(* of the element it observes; an interval timer ticks until it is         *)
(* cleared.                                                                *)
(*                                                                         *)
(* Spec is the component with every event free. The history variables are  *)
(* written under the specification that needs them and keep their first    *)
(* value elsewhere: script under SpecReattach and SpecReplace, lastEntry   *)
(* under SpecSize, lastRead under SpecLocation and SpecReplace. The        *)
(* arguments of the hooks change under SpecDelay (refreshDelayInMs),       *)
(* SpecKeyPress (keyCode, action, allowInput) and SpecZoom (allowInput of  *)
(* useZoom), which are also the ones with keydown and wheel events.        *)
(***************************************************************************)
EXTENDS Integers, Sequences, FiniteSets

\* bounds of the model
MaxDim == 1        \* content-box widths and heights range over 0..MaxDim
MaxCoord == 1      \* viewport x and y range over 0..MaxCoord
MaxBatch == 2      \* longest batch handed to the resize callback
MaxWheel == 2      \* wheel events that reach the zoom callback

\* program constants
DefaultRefreshDelayInMs == 100

\* another period a caller passes to useLocation
OtherRefreshDelayInMs == 250

Elems == {"e1", "e2"}
KeyCodes == {"KeyA", "KeyB"}     \* values of KeyboardEvent.code
WheelAmounts == {-125, 125}      \* values of WheelEvent.deltaY: one notch up, one down
Actions == {"a1", "a2"}          \* the functions a caller passes as `action`
NULL == "null"
NONE == 0          \* "no cleanup function returned" / "no subscription"

\* nothing reported yet, nothing read yet
NoEntry == [target |-> NULL, width |-> 0, height |-> 0]
NoRead == [target |-> NULL, x |-> 0, y |-> 0]

Dims == 0..MaxDim
Coords == 0..MaxCoord

VARIABLES
  mounted,      \* the component is mounted
  phase,        \* "idle" | "committed" (effects pending) | "cleaned" (cleanups run)
  locNode,      \* useLocation > useRefCallback: state `node`
  sizeNode,     \* useSize > useRefCallback: state `node`
  location,     \* useLocation: state `location`, an object [id, x, y]
  size,         \* useSize: state `size`, an object [id, width, height]
  r,            \* what the last render read:
                \* [locNode, sizeNode, location, size, wheelNode]
  box,          \* useBox: the memoized BoundingBox [id, location, size]
  pendingLoc,   \* the effect of useLocation is scheduled by the last render
  pendingSize,  \* the effect of useSize is scheduled by the last render
  timers,       \* active interval timers: records [id, target, delay]
  observers,    \* connected resize observers: records [id, target]
  locCleanup,   \* timer id held by the cleanup of useLocation's effect, or NONE
  sizeCleanup,  \* observer id held by the cleanup of useSize's effect, or NONE
  raised,       \* the last invocation of handleResize threw
  lastEntry,    \* history: the entry of the last report handleResize took
  lastRead,     \* history: the element and position the last tick read
  script,       \* calls made of the scenario attach(e1), attach(null), attach(e2)
  keyListeners, \* "keydown" listeners on window: records [id, keyCode, action]
  keyCleanup,   \* listener id held by the cleanup of useOnKeyPress's effect, or NONE
  pendingKey,   \* the effect of useOnKeyPress is scheduled by the last render
  invoked,      \* how many times the last keydown event called each action
  wheelNode,      \* useOnMouseWheel > useRefCallback: state `node`
  wheelListeners, \* "wheel" listeners on elements: records [id, target]
  wheelCleanup,   \* the listener held by the cleanup of useOnMouseWheel's effect
  pendingWheel,   \* the effect of useOnMouseWheel is scheduled by the last render
  zoom,           \* useZoom: state `zoom`, the fraction num / den
  wheelCalls,     \* how many times the last wheel event called the zoom callback
  props,        \* the arguments the last render passed to the hooks
  handles       \* the functions the last render returned as attach handles:
                \* [locationRef, sizeRef, ref], each a function identity

vars == <<mounted, phase, locNode, sizeNode, location, size, r, box,
          pendingLoc, pendingSize, timers, observers, locCleanup, sizeCleanup,
          raised, lastEntry, lastRead, script, keyListeners, keyCleanup, pendingKey, invoked,
          wheelNode, wheelListeners, wheelCleanup, pendingWheel, zoom, wheelCalls,
          props, handles>>

\* the state of useOnKeyPress
keyVars == <<keyListeners, keyCleanup, pendingKey, invoked>>

\* the state of useZoom and of the useOnMouseWheel it calls
wheelVars == <<wheelNode, wheelListeners, wheelCleanup, pendingWheel, zoom, wheelCalls>>

\* ---------------------------------------------------------------- values

\* the smallest serial number that `used` does not hold
FreshId(used) == CHOOSE i \in 1..(Cardinality(used) + 1) : i \notin used

\* Size and Location are immutable objects. An object is its fields plus a
\* serial `id` that tells it from the other objects with the same fields, so
\* two references are the same object exactly when the records are equal.
\* A BoundingBox is named the same way.
SizeOf(id, w, h) == [id |-> id, width |-> w, height |-> h]
LocationOf(id, x, y) == [id |-> id, x |-> x, y |-> y]

SizeEquals(a, b) == a.width = b.width /\ a.height = b.height
LocationEquals(a, b) == a.x = b.x /\ a.y = b.y

NewBoundingBox(id, loc, sz) == [id |-> id, location |-> loc, size |-> sz]

\* the serial Size.of(w, h) gives a new object: one that no Size with these
\* fields referenced by the component holds
NewSizeId(w, h) ==
  FreshId({s.id : s \in {s \in {size, r.size, box.size} :
                            s.width = w /\ s.height = h}})
NewLocationId(x, y) ==
  FreshId({l.id : l \in {l \in {location, r.location, box.location} :
                            l.x = x /\ l.y = y}})

\* ---------------------------------------------------------------- useRefCallback

\* slip: the ref callback stores whatever it is given, null included
RefCallback_StoresNull(stored, node) == node

\* the ref callback: the state after ref(node)
RefCallback(stored, node) == IF node = NULL THEN stored ELSE node

\* slip: the dependency array is left out, every render makes a new function
UseCallback_NoDeps(fn, prevDeps, deps) == FreshId({fn})

\* useCallback(f, deps): the function of the render before while the
\* dependencies are identical, else the function this render made
UseCallback(fn, prevDeps, deps) == IF deps = prevDeps THEN fn ELSE FreshId({fn})

\* the attach handles a render returns, given those of the render before:
\* useRefCallback memoizes on [], useBox on [locationRef, sizeRef]
UseBoxHandles(prev) ==
  LET locationRef == UseCallback(prev.locationRef, <<>>, <<>>)
      sizeRef == UseCallback(prev.sizeRef, <<>>, <<>>)
  IN  [locationRef |-> locationRef,
       sizeRef |-> sizeRef,
       ref |-> UseCallback(prev.ref, <<prev.locationRef, prev.sizeRef>>,
                           <<locationRef, sizeRef>>)]

\* slip: the composed ref forwards its argument to locationRef alone
UseBoxRef_LocationOnly(ln, sn, node) ==
  [locNode |-> RefCallback(ln, node), sizeNode |-> sn]

\* the composed ref of useBox: forwards its argument to both sub-trackers
UseBoxRef(ln, sn, node) ==
  [locNode |-> RefCallback(ln, node), sizeNode |-> RefCallback(sn, node)]

\* ---------------------------------------------------------------- useSize

\* slip: the equality guard is missing, every report stores the candidate
HandleResize_AlwaysReplaces(sz, elements, id) ==
  IF Len(elements) # 1
    THEN [threw |-> TRUE, size |-> sz]
    ELSE [threw |-> FALSE,
          size |-> SizeOf(id, elements[1].width, elements[1].height)]

\* slip: only the empty batch is refused
HandleResize_RefusesEmptyOnly(sz, elements, id) ==
  IF Len(elements) = 0
    THEN [threw |-> TRUE, size |-> sz]
    ELSE LET element == elements[1]
             nextSize == SizeOf(id, element.width, element.height)
         IN  [threw |-> FALSE,
              size |-> IF SizeEquals(sz, nextSize) THEN sz ELSE nextSize]

\* handleResize: the Size stored after the callback and whether it threw;
\* `id` is the identity Size.of gives the candidate
HandleResize(sz, elements, id) ==
  IF Len(elements) # 1
    THEN [threw |-> TRUE, size |-> sz]
    ELSE LET element == elements[1]
             nextSize == SizeOf(id, element.width, element.height)
         IN  [threw |-> FALSE,
              size |-> IF SizeEquals(sz, nextSize) THEN sz ELSE nextSize]

\* slip: the effect observes whatever the render read, no element included
SizeEffect_NoNullCheck(node, obs) ==
  LET id == FreshId({o.id : o \in obs})
  IN  [observers |-> obs \cup {[id |-> id, target |-> node]}, cleanup |-> id]

\* the effect of useSize, run with the node its render read
SizeEffect(node, obs) ==
  IF node = NULL
    THEN [observers |-> obs, cleanup |-> NONE]
    ELSE LET id == FreshId({o.id : o \in obs})
         IN  [observers |-> obs \cup {[id |-> id, target |-> node]},
              cleanup |-> id]

\* slip: the cleanup leaves the observer connected
SizeEffectCleanup_NoDisconnect(obs, id) == obs

\* the cleanup the effect of useSize returned: resizeObserver.disconnect()
SizeEffectCleanup(obs, id) == {o \in obs : o.id # id}

\* ---------------------------------------------------------------- useLocation

\* slip: the guard compares x alone
IntervalCallback_ComparesXOnly(loc, x, y, id) ==
  LET nextLocation == LocationOf(id, x, y)
  IN  IF loc.x = nextLocation.x THEN loc ELSE nextLocation

\* the interval callback: the Location stored after a tick that read (x, y)
IntervalCallback(loc, x, y, id) ==
  LET nextLocation == LocationOf(id, x, y)
  IN  IF LocationEquals(loc, nextLocation) THEN loc ELSE nextLocation

\* slip: refreshDelayInMs is listed in the dependencies of the effect
LocationEffectDeps_WithDelay(node, refreshDelayInMs) == <<node, refreshDelayInMs>>

\* the dependencies of the effect of useLocation: [node]
LocationEffectDeps(node, refreshDelayInMs) == <<node>>

\* the effect of useLocation, run with the node its render read
LocationEffect(node, tms, refreshDelayInMs) ==
  IF node = NULL
    THEN [timers |-> tms, cleanup |-> NONE]
    ELSE LET id == FreshId({t.id : t \in tms})
         IN  [timers |-> tms \cup {[id |-> id, target |-> node, delay |-> refreshDelayInMs]},
              cleanup |-> id]

\* slip: the cleanup leaves the timer running
LocationEffectCleanup_NoClear(tms, id) == tms

\* the cleanup the effect of useLocation returned: clearInterval(id)
LocationEffectCleanup(tms, id) == {t \in tms : t.id # id}

\* ---------------------------------------------------------------- useOnKeyPress

\* no action was called
NoneInvoked == [a \in Actions |-> 0]

\* slip: action is missing from the dependencies of the effect
KeyPressEffectDeps_NoAction(keyCode, action, allowInput) == <<keyCode, allowInput>>

\* the dependencies of the effect of useOnKeyPress
KeyPressEffectDeps(keyCode, action, allowInput) == <<keyCode, action, allowInput>>

\* the effect of useOnKeyPress, run with the arguments its render was given
KeyPressEffect(keyCode, action, allowInput, ls) ==
  IF ~allowInput
    THEN [listeners |-> ls, cleanup |-> NONE]
    ELSE LET id == FreshId({l.id : l \in ls})
         IN  [listeners |-> ls \cup {[id |-> id, keyCode |-> keyCode, action |-> action]},
              cleanup |-> id]

\* the cleanup the effect returned: window.removeEventListener
KeyPressEffectCleanup(ls, id) == {l \in ls : l.id # id}

\* keyPressHandler: the calls of each action when the listeners ls get a
\* keydown event with the code `code`
KeyPressHandler(ls, code) ==
  [a \in Actions |-> Cardinality({l \in ls : l.keyCode = code /\ l.action = a})]

\* ---------------------------------------------------------------- useOnMouseWheel, useZoom

\* the cleanup holds no listener
NoListener == [id |-> NONE, target |-> NULL]

\* the function useZoom passes as action: useCallback(..., []) keeps the one
\* of the first render
ZoomCallback == "callback"

\* the dependencies of the effect of useOnMouseWheel
WheelEffectDeps(node, action, allowInput) == <<node, action, allowInput>>

\* the effect of useOnMouseWheel, run with the node its render read
WheelEffect(node, allowInput, ls) ==
  IF node = NULL \/ ~allowInput
    THEN [listeners |-> ls, cleanup |-> NoListener]
    ELSE LET l == [id |-> FreshId({k.id : k \in ls}), target |-> node]
         IN  [listeners |-> ls \cup {l}, cleanup |-> l]

\* slip: the cleanup removes the handler from the element stored now
WheelEffectCleanup_FromStoredNode(ls, held) ==
  {l \in ls : ~(l.id = held.id /\ l.target = wheelNode)}

\* the cleanup the effect returned: curNode.removeEventListener, on the
\* element the effect captured
WheelEffectCleanup(ls, held) ==
  {l \in ls : ~(l.id = held.id /\ l.target = held.target)}

\* the updater of the zoom callback: zoom * (1 - amount / 125 / 10), on
\* fractions, for amounts that are whole notches of 125
ZoomUpdate(z, amount) ==
  [num |-> z.num * (10 - amount \div 125), den |-> z.den * 10]

\* the zoom after n calls of the callback with the same amount
RECURSIVE ZoomTimes(_, _, _)
ZoomTimes(z, amount, n) ==
  IF n = 0 THEN z ELSE ZoomTimes(ZoomUpdate(z, amount), amount, n - 1)

\* the denominator of a zoom that MaxWheel calls have updated
RECURSIVE TenTo(_)
TenTo(n) == IF n = 0 THEN 1 ELSE 10 * TenTo(n - 1)

\* ---------------------------------------------------------------- useBox

\* the serial of a new BoundingBox: one the box memoized before does not
\* hold, if that box has the same components
NewBoxId(prev, loc, sz) ==
  FreshId({b.id : b \in {b \in {prev} : b.location = loc /\ b.size = sz}})

\* slip: size is missing from the dependencies of useMemo
UseMemoBox_LocationOnly(prev, loc, sz) ==
  IF prev.location = loc
    THEN prev
    ELSE NewBoundingBox(NewBoxId(prev, loc, sz), loc, sz)

\* slip: location is missing from the dependencies of useMemo
UseMemoBox_SizeOnly(prev, loc, sz) ==
  IF prev.size = sz
    THEN prev
    ELSE NewBoundingBox(NewBoxId(prev, loc, sz), loc, sz)

\* useMemo(() => new BoundingBox(location, size), [location, size])
UseMemoBox(prev, loc, sz) ==
  IF prev.location = loc /\ prev.size = sz
    THEN prev
    ELSE NewBoundingBox(NewBoxId(prev, loc, sz), loc, sz)

\* ---------------------------------------------------------------- state machine

\* the arguments of the first render: the defaults for the optional ones
DefaultProps == [refreshDelayInMs |-> DefaultRefreshDelayInMs,
                 keyCode |-> "KeyA", action |-> "a1", allowInput |-> TRUE,
                 allowZoom |-> TRUE]

\* the state after the first render of the component: nothing is attached and
\* the effects of that render are still to run
Init ==
  /\ mounted = TRUE
  /\ phase = "committed"
  /\ locNode = NULL
  /\ sizeNode = NULL
  /\ location = LocationOf(1, 0, 0)
  /\ size = SizeOf(1, 0, 0)
  /\ r = [locNode |-> NULL, sizeNode |-> NULL,
          location |-> LocationOf(1, 0, 0), size |-> SizeOf(1, 0, 0),
          wheelNode |-> NULL]
  /\ box = NewBoundingBox(1, LocationOf(1, 0, 0), SizeOf(1, 0, 0))
  /\ pendingLoc = TRUE
  /\ pendingSize = TRUE
  /\ timers = {}
  /\ observers = {}
  /\ locCleanup = NONE
  /\ sizeCleanup = NONE
  /\ raised = FALSE
  /\ lastEntry = NoEntry
  /\ lastRead = NoRead
  /\ script = 0
  /\ keyListeners = {}
  /\ keyCleanup = NONE
  /\ pendingKey = TRUE
  /\ invoked = NoneInvoked
  /\ wheelNode = NULL
  /\ wheelListeners = {}
  /\ wheelCleanup = NoListener
  /\ pendingWheel = TRUE
  /\ zoom = [num |-> 1, den |-> 1]
  /\ wheelCalls = 0
  /\ props = DefaultProps
  /\ handles = [locationRef |-> 1, sizeRef |-> 1, ref |-> 1]

\* the attach handle useBox returns is called with an element or null
AttachCall(node) ==
  /\ mounted
  /\ phase # "cleaned"
  /\ LET s == UseBoxRef(locNode, sizeNode, node)
     IN  /\ locNode' = s.locNode
         /\ sizeNode' = s.sizeNode
  /\ UNCHANGED <<mounted, phase, location, size, r, box, pendingLoc, pendingSize,
                 timers, observers, locCleanup, sizeCleanup, raised, lastEntry, lastRead>>
  /\ UNCHANGED <<keyVars, wheelVars, props, handles>>

\* a call at any time, with any argument
Attach(node) == AttachCall(node) /\ UNCHANGED script

\* the next call of the scenario: an element, then null, then another element
ScriptedAttach(node) ==
  /\ \/ script = 0 /\ node # NULL
     \/ script = 1 /\ node = NULL
     \/ script = 2 /\ node # NULL /\ node # locNode
  /\ AttachCall(node)
  /\ script' = script + 1

\* a recomputation cycle: the component function runs with the arguments p
\* and the result commits
RenderWith(p) ==
  /\ mounted
  /\ phase = "idle"
  /\ r' = [locNode |-> locNode, sizeNode |-> sizeNode,
           location |-> location, size |-> size, wheelNode |-> wheelNode]
  /\ box' = UseMemoBox(box, location, size)
  /\ props' = p
  /\ pendingLoc' = (LocationEffectDeps(locNode, p.refreshDelayInMs)
                      # LocationEffectDeps(r.locNode, props.refreshDelayInMs))
  /\ pendingSize' = (sizeNode # r.sizeNode)
  /\ pendingKey' = (KeyPressEffectDeps(p.keyCode, p.action, p.allowInput)
                      # KeyPressEffectDeps(props.keyCode, props.action, props.allowInput))
  /\ pendingWheel' = (WheelEffectDeps(wheelNode, ZoomCallback, p.allowZoom)
                        # WheelEffectDeps(r.wheelNode, ZoomCallback, props.allowZoom))
  /\ phase' = IF pendingLoc' \/ pendingSize' \/ pendingKey' \/ pendingWheel'
                THEN "committed" ELSE "idle"
  /\ handles' = UseBoxHandles(handles)
  /\ UNCHANGED <<keyListeners, keyCleanup, invoked>>
  /\ UNCHANGED <<wheelNode, wheelListeners, wheelCleanup, zoom, wheelCalls>>
  /\ UNCHANGED <<mounted, locNode, sizeNode, location, size, timers, observers,
                 locCleanup, sizeCleanup, raised, lastEntry, lastRead, script>>

\* a recomputation cycle with the arguments of the cycle before
Render == RenderWith(props)

\* first pass of the flush: the cleanups of the effects that will run again
FlushCleanups ==
  /\ phase = "committed"
  /\ timers' = IF pendingLoc /\ locCleanup # NONE
                 THEN LocationEffectCleanup(timers, locCleanup) ELSE timers
  /\ observers' = IF pendingSize /\ sizeCleanup # NONE
                    THEN SizeEffectCleanup(observers, sizeCleanup) ELSE observers
  /\ phase' = "cleaned"
  /\ UNCHANGED <<mounted, locNode, sizeNode, location, size, r, box, pendingLoc,
                 pendingSize, locCleanup, sizeCleanup, raised, lastEntry, lastRead, script>>
  /\ keyListeners' = IF pendingKey /\ keyCleanup # NONE
                       THEN KeyPressEffectCleanup(keyListeners, keyCleanup)
                       ELSE keyListeners
  /\ wheelListeners' = IF pendingWheel /\ wheelCleanup # NoListener
                         THEN WheelEffectCleanup(wheelListeners, wheelCleanup)
                         ELSE wheelListeners
  /\ UNCHANGED <<keyCleanup, pendingKey, invoked, props, handles>>
  /\ UNCHANGED <<wheelNode, wheelCleanup, pendingWheel, zoom, wheelCalls>>

\* second pass of the flush: the bodies of the scheduled effects
FlushCreates ==
  /\ phase = "cleaned"
  /\ LET le == IF pendingLoc
                 THEN LocationEffect(r.locNode, timers, props.refreshDelayInMs)
                 ELSE [timers |-> timers, cleanup |-> locCleanup]
         se == IF pendingSize
                 THEN SizeEffect(r.sizeNode, observers)
                 ELSE [observers |-> observers, cleanup |-> sizeCleanup]
     IN  /\ timers' = le.timers
         /\ locCleanup' = le.cleanup
         /\ observers' = se.observers
         /\ sizeCleanup' = se.cleanup
  /\ pendingLoc' = FALSE
  /\ pendingSize' = FALSE
  /\ phase' = "idle"
  /\ UNCHANGED <<mounted, locNode, sizeNode, location, size, r, box, raised,
                 lastEntry, lastRead, script>>
  /\ LET ke == IF pendingKey
                 THEN KeyPressEffect(props.keyCode, props.action, props.allowInput,
                                     keyListeners)
                 ELSE [listeners |-> keyListeners, cleanup |-> keyCleanup]
     IN  /\ keyListeners' = ke.listeners
         /\ keyCleanup' = ke.cleanup
  /\ pendingKey' = FALSE
  /\ LET we == IF pendingWheel
                 THEN WheelEffect(r.wheelNode, props.allowZoom, wheelListeners)
                 ELSE [listeners |-> wheelListeners, cleanup |-> wheelCleanup]
     IN  /\ wheelListeners' = we.listeners
         /\ wheelCleanup' = we.cleanup
  /\ pendingWheel' = FALSE
  /\ UNCHANGED <<invoked, props, handles, wheelNode, zoom, wheelCalls>>

\* teardown: React detaches the ref (calls it with null) and runs every cleanup
Unmount ==
  /\ mounted
  /\ phase = "idle"
  /\ mounted' = FALSE
  /\ LET s == UseBoxRef(locNode, sizeNode, NULL)
     IN  /\ locNode' = s.locNode
         /\ sizeNode' = s.sizeNode
  /\ timers' = IF locCleanup # NONE
                 THEN LocationEffectCleanup(timers, locCleanup) ELSE timers
  /\ observers' = IF sizeCleanup # NONE
                    THEN SizeEffectCleanup(observers, sizeCleanup) ELSE observers
  /\ locCleanup' = NONE
  /\ sizeCleanup' = NONE
  /\ UNCHANGED <<phase, location, size, r, box, pendingLoc, pendingSize, raised,
                 lastEntry, lastRead, script>>
  /\ keyListeners' = IF keyCleanup # NONE
                       THEN KeyPressEffectCleanup(keyListeners, keyCleanup)
                       ELSE keyListeners
  /\ keyCleanup' = NONE
  /\ wheelNode' = RefCallback(wheelNode, NULL)
  /\ wheelListeners' = IF wheelCleanup # NoListener
                         THEN WheelEffectCleanup(wheelListeners, wheelCleanup)
                         ELSE wheelListeners
  /\ wheelCleanup' = NoListener
  /\ UNCHANGED <<pendingKey, invoked, props, handles, pendingWheel, zoom, wheelCalls>>

\* the callback of observer o is invoked with the batch `elements`
ResizeCallback(o, elements) ==
  /\ o \in observers
  /\ phase # "cleaned"
  /\ LET id == IF elements = <<>> THEN NONE
               ELSE NewSizeId(elements[1].width, elements[1].height)
         res == HandleResize(size, elements, id)
     IN  /\ size' = res.size
         /\ raised' = res.threw
  /\ UNCHANGED <<mounted, phase, locNode, sizeNode, location, r, box, pendingLoc,
                 pendingSize, timers, observers, locCleanup, sizeCleanup, script>>
  /\ UNCHANGED <<keyVars, wheelVars, props, handles>>

\* the browser reports the content box (w, h) of the element observer o observes
ResizeNotify(o, w, h) ==
  /\ ResizeCallback(o, <<[target |-> o.target, width |-> w, height |-> h]>>)
  /\ UNCHANGED <<lastEntry, lastRead>>

\* the same report, with the history kept
TracedResizeNotify(o, w, h) ==
  /\ ResizeCallback(o, <<[target |-> o.target, width |-> w, height |-> h]>>)
  /\ lastEntry' = [target |-> o.target, width |-> w, height |-> h]
  /\ UNCHANGED lastRead

Entries == [target : Elems, width : Dims, height : Dims]

\* a batch of n entries
Batch(n, entry) == [i \in 1..n |-> entry]

\* the callback of observer o is invoked with a batch that is not one entry
ResizeBatch(o, elements) ==
  /\ Len(elements) # 1
  /\ ResizeCallback(o, elements)
  /\ lastEntry' = IF raised' THEN lastEntry ELSE elements[1]
  /\ UNCHANGED lastRead

\* slip: the tick also stores the rectangle it read as the Size
TimerFires_PollsSize(t, x, y) ==
  /\ t \in timers
  /\ phase # "cleaned"
  /\ location' = IntervalCallback(location, x, y, NewLocationId(x, y))
  /\ size' = HandleResize(size, <<[target |-> t.target, width |-> x, height |-> y]>>,
                          NewSizeId(x, y)).size
  /\ UNCHANGED <<mounted, phase, locNode, sizeNode, r, box, pendingLoc,
                 pendingSize, timers, observers, locCleanup, sizeCleanup, raised,
                 lastEntry, script, keyVars, wheelVars,
                 props, handles>>

\* timer t fires and reads (x, y) from the element its effect captured
TimerFires(t, x, y) ==
  /\ t \in timers
  /\ phase # "cleaned"
  /\ location' = IntervalCallback(location, x, y, NewLocationId(x, y))
  /\ UNCHANGED <<mounted, phase, locNode, sizeNode, size, r, box, pendingLoc,
                 pendingSize, timers, observers, locCleanup, sizeCleanup, raised,
                 lastEntry, script>>
  /\ UNCHANGED <<keyVars, wheelVars, props, handles>>

Tick(t, x, y) == TimerFires(t, x, y) /\ UNCHANGED lastRead

\* the same tick, with the history kept
TracedTick(t, x, y) ==
  /\ TimerFires(t, x, y)
  /\ lastRead' = [target |-> t.target, x |-> x, y |-> y]

\* the browser dispatches a keydown event with the code `code` to window
KeyDown(code) ==
  /\ phase # "cleaned"
  /\ invoked' = KeyPressHandler(keyListeners, code)
  /\ UNCHANGED <<mounted, phase, locNode, sizeNode, location, size, r, box,
                 pendingLoc, pendingSize, timers, observers, locCleanup, sizeCleanup,
                 raised, lastEntry, lastRead, script, keyListeners, keyCleanup,
                 pendingKey, wheelVars, props, handles>>

\* the attach handle useZoom returns is called with an element or null
ZoomAttach(node) ==
  /\ mounted
  /\ phase # "cleaned"
  /\ wheelNode' = RefCallback(wheelNode, node)
  /\ UNCHANGED <<mounted, phase, locNode, sizeNode, location, size, r, box,
                 pendingLoc, pendingSize, timers, observers, locCleanup, sizeCleanup,
                 raised, lastEntry, lastRead, script, keyVars, wheelListeners,
                 wheelCleanup, pendingWheel, zoom, wheelCalls, props, handles>>

\* the browser dispatches a wheel event with deltaY = amount to element e:
\* every handler registered on e calls the zoom callback
Wheel(e, amount) ==
  /\ phase # "cleaned"
  /\ zoom.den < TenTo(MaxWheel)
  /\ LET n == Cardinality({l \in wheelListeners : l.target = e})
     IN  /\ wheelCalls' = n
         /\ zoom' = ZoomTimes(zoom, amount, n)
  /\ UNCHANGED <<mounted, phase, locNode, sizeNode, location, size, r, box,
                 pendingLoc, pendingSize, timers, observers, locCleanup, sizeCleanup,
                 raised, lastEntry, lastRead, script, keyVars, wheelNode,
                 wheelListeners, wheelCleanup, pendingWheel, props, handles>>

\* the settled state: every state update is rendered and every effect has run
Settled ==
  /\ mounted
  /\ phase = "idle"
  /\ r.locNode = locNode
  /\ r.sizeNode = sizeNode

Lifecycle ==
  \/ Render
  \/ FlushCleanups
  \/ FlushCreates
  \/ Unmount

\* the component in a browser: the resize callback gets one entry at a time
Next ==
  \/ \E node \in Elems \cup {NULL} : Attach(node)
  \/ Lifecycle
  \/ \E o \in observers : \E w \in Dims, h \in Dims : ResizeNotify(o, w, h)
  \/ \E t \in timers : \E x \in Coords, y \in Coords : Tick(t, x, y)

Spec == Init /\ [][Next]_vars

\* the attach handle is called as the scenario says, everything else is free
NextReattach ==
  \/ \E node \in Elems \cup {NULL} : ScriptedAttach(node)
  \/ Lifecycle
  \/ \E o \in observers : \E w \in Dims, h \in Dims : ResizeNotify(o, w, h)
  \/ \E t \in timers : \E x \in Coords, y \in Coords : Tick(t, x, y)

SpecReattach == Init /\ [][NextReattach]_vars

\* the size tracker alone, with the history of the stored Size; the resize
\* callback is also invoked with batches of any length. The timer of
\* useLocation is left out: no tick changes what useSize reads or writes.
NextSize ==
  \/ \E node \in Elems \cup {NULL} : Attach(node)
  \/ Lifecycle
  \/ \E o \in observers : \E w \in Dims, h \in Dims : TracedResizeNotify(o, w, h)
  \/ \E o \in observers : \E n \in (0..MaxBatch) \ {1} :
       \E entry \in Entries : ResizeBatch(o, Batch(n, entry))

SpecSize == Init /\ [][NextSize]_vars

\* the location tracker alone, with the history of the reads kept; the
\* resize observer of useSize is left out: no report changes what
\* useLocation reads or writes.
NextLocation ==
  \/ \E node \in Elems \cup {NULL} : Attach(node)
  \/ Lifecycle
  \/ \E t \in timers : \E x \in Coords, y \in Coords : TracedTick(t, x, y)

SpecLocation == Init /\ [][NextLocation]_vars

\* the location tracker alone, with the history of the reads kept, while the
\* attach handle is called as the scenario says
NextReplace ==
  \/ \E node \in Elems \cup {NULL} : ScriptedAttach(node)
  \/ Lifecycle
  \/ \E t \in timers : \E x \in Coords, y \in Coords : TracedTick(t, x, y)

SpecReplace == Init /\ [][NextReplace]_vars

\* the location tracker alone, rendered with any period
DelayProps == {[DefaultProps EXCEPT !.refreshDelayInMs = d] :
                 d \in {DefaultRefreshDelayInMs, OtherRefreshDelayInMs}}

NextDelay ==
  \/ \E node \in Elems \cup {NULL} : Attach(node)
  \/ \E p \in DelayProps : RenderWith(p)
  \/ FlushCleanups
  \/ FlushCreates
  \/ Unmount
  \/ \E t \in timers : \E x \in Coords, y \in Coords : Tick(t, x, y)

SpecDelay == Init /\ [][NextDelay]_vars

\* useOnKeyPress alone: renders with any key code, action and allowInput,
\* and keydown events with any code at any time
KeyProps == {[DefaultProps EXCEPT !.keyCode = k, !.action = a, !.allowInput = b] :
               k \in KeyCodes, a \in Actions, b \in BOOLEAN}

NextKeyPress ==
  \/ \E p \in KeyProps : RenderWith(p)
  \/ FlushCleanups
  \/ FlushCreates
  \/ Unmount
  \/ \E code \in KeyCodes : KeyDown(code)

SpecKeyPress == Init /\ [][NextKeyPress]_vars

\* useZoom alone: the attach handle called with anything, renders with any
\* allowInput, wheel events on any element at any time
ZoomProps == {[DefaultProps EXCEPT !.allowZoom = b] : b \in BOOLEAN}

NextZoom ==
  \/ \E node \in Elems \cup {NULL} : ZoomAttach(node)
  \/ \E p \in ZoomProps : RenderWith(p)
  \/ FlushCleanups
  \/ FlushCreates
  \/ Unmount
  \/ \E e \in Elems : \E amount \in WheelAmounts : Wheel(e, amount)

SpecZoom == Init /\ [][NextZoom]_vars

\* ---------------------------------------------------------------- properties

\* C1: in every reachable state useSize has at most one connected resize
\* observer and useLocation at most one active interval timer; and between
\* the two passes of a flush, when the effect of a tracker is about to
\* subscribe again, the subscription it held before is already torn down.
C1_AtMostOneSubscription ==
  /\ Cardinality(observers) <= 1
  /\ Cardinality(timers) <= 1
  /\ (phase = "cleaned" /\ pendingSize => observers = {})
  /\ (phase = "cleaned" /\ pendingLoc => timers = {})

\* the bound element was replaced: the old subscriptions are torn down and the
\* ones for the new element are not created yet
C1_Witness ==
  /\ phase = "cleaned"
  /\ pendingSize /\ pendingLoc
  /\ sizeCleanup # NONE /\ locCleanup # NONE
  /\ r.sizeNode # NULL /\ r.locNode # NULL
  /\ observers = {} /\ timers = {}

\* C2: after attach(e1), attach(null), attach(e2) with e1 # e2, once the
\* effects have run, each tracker has exactly one live subscription and it
\* targets e2, the element attached last: nothing that targets e1 remains and
\* e2 is registered once.
C2_ReattachLeavesOneSubscription ==
  script = 3 /\ Settled =>
    /\ locNode # NULL /\ sizeNode = locNode
    /\ Cardinality(observers) = 1
    /\ \A o \in observers : o.target = sizeNode
    /\ Cardinality(timers) = 1
    /\ \A t \in timers : t.target = locNode

\* the three calls are made, the effects have run and both trackers reported
C2_Witness ==
  /\ script = 3 /\ Settled
  /\ size # SizeOf(1, 0, 0)
  /\ location # LocationOf(1, 0, 0)

\* C3: a call of the attach handle with null leaves the stored elements, the
\* timers and the observers as they are; a call with an element stores that
\* element in both trackers.
C3_NullAttachIsNoOp ==
  [][/\ ScriptedAttach(NULL) =>
          UNCHANGED <<locNode, sizeNode, timers, observers, locCleanup, sizeCleanup>>
     /\ \A e \in Elems : ScriptedAttach(e) => locNode' = e /\ sizeNode' = e]_vars

\* the attach handle was called with null while an element was stored and
\* subscribed to, and they are still there
C3_Witness ==
  /\ script = 2
  /\ locNode # NULL /\ sizeNode # NULL
  /\ timers # {} /\ observers # {}

\* C4: whenever useSize is bound to an element (its observer is connected to
\* it), the stored Size is the initial one or reflects a report for that
\* element, never a report for an element bound before.
C4_NoStaleSize ==
  \A o \in observers : size = SizeOf(1, 0, 0) \/ lastEntry.target = o.target

\* C5: after teardown no resize observer is connected and no interval timer
\* is active, and no later step changes the stored Size or Location.
C5_TeardownCancels ==
  [][~mounted' =>
       /\ observers' = {}
       /\ timers' = {}
       /\ (~mounted => size' = size /\ location' = location)]_vars

\* the component was unmounted while both trackers were subscribed
C5_Witness ==
  /\ ~mounted
  /\ r.sizeNode # NULL /\ r.locNode # NULL
  /\ size # SizeOf(1, 0, 0)
  /\ location # LocationOf(1, 0, 0)

\* C6: a render returns a new BoundingBox exactly when the Location or the
\* Size it reads is another object than the one the render before read;
\* otherwise it returns the BoundingBox of the render before.
C6_BoxIdentity ==
  [][Render =>
       ((box' # box) <=> (r'.location # r.location \/ r'.size # r.size))]_vars

\* the box was rebuilt for a new Size alone: its Location is the first one
C6_Witness ==
  /\ box.size # SizeOf(1, 0, 0)
  /\ box.location = LocationOf(1, 0, 0)
  /\ location # LocationOf(1, 0, 0)

\* C7: a report of one entry with the width and height of the stored Size
\* leaves the stored Size the same object; any other report stores a new
\* object; either way the stored Size has the width and height reported last.
C7_ResizeEqualityGuard ==
  /\ [][\A o \in observers : \A w \in Dims, h \in Dims :
          TracedResizeNotify(o, w, h) =>
            IF size.width = w /\ size.height = h
              THEN size' = size
              ELSE size' \notin {size, r.size, box.size}]_vars
  /\ [](lastEntry # NoEntry =>
          size.width = lastEntry.width /\ size.height = lastEntry.height)

\* a report replaced the stored Size by one that differs in the width alone
\* from the Size the last render read
C7_Witness ==
  /\ observers # {}
  /\ lastEntry # NoEntry
  /\ size.width # r.size.width
  /\ size.height = r.size.height

\* C8: a tick that reads the x and y of the stored Location leaves the stored
\* Location the same object; any other tick stores a new object; either way
\* the stored Location has the x and y read last.
C8_TickEqualityGuard ==
  /\ [][\A t \in timers : \A x \in Coords, y \in Coords :
          TracedTick(t, x, y) =>
            IF location.x = x /\ location.y = y
              THEN location' = location
              ELSE location' \notin {location, r.location, box.location}]_vars
  /\ [](lastRead # NoRead =>
          location.x = lastRead.x /\ location.y = lastRead.y)

\* a tick replaced the stored Location by one that differs in y alone from
\* the Location the last render read
C8_Witness ==
  /\ timers # {}
  /\ lastRead # NoRead
  /\ location.x = r.location.x
  /\ location.y # r.location.y

\* C9: a call of the composed attach handle with an element stores that
\* element in both sub-trackers, and after any calls the two store the same
\* element.
C9_ComposedAttach ==
  [][/\ \A e \in Elems : Attach(e) => locNode' = e /\ sizeNode' = e
     /\ locNode' = sizeNode']_vars

\* the composed handle replaced the element of both sub-trackers
C9_Witness ==
  /\ locNode = "e2" /\ sizeNode = "e2"
  /\ r.locNode = "e1" /\ r.sizeNode = "e1"

\* C10: the resize callback invoked with a batch of zero or of two or more
\* entries throws and leaves the stored Size as it is.
C10_BatchIntegrity ==
  [][\A o \in observers : \A n \in (0..MaxBatch) \ {1} : \A entry \in Entries :
       ResizeBatch(o, Batch(n, entry)) => raised' /\ size' = size]_vars

\* the callback threw while a reported Size was stored
C10_Witness ==
  /\ raised
  /\ observers # {}
  /\ size # SizeOf(1, 0, 0)

\* C11: the BoundingBox a render returns holds the Location and the Size that
\* render read, that is the ones stored when it ran: never one of them from
\* this render with the other from a render before.
C11_BoxIsCurrentPair ==
  /\ box.location = r.location
  /\ box.size = r.size

\* the box was rebuilt for a new Location while it held a reported Size: its
\* two components come from different updates and are the ones stored now
C11_Witness ==
  /\ mounted /\ phase = "idle"
  /\ box.size # SizeOf(1, 0, 0)
  /\ box.location # LocationOf(1, 0, 0)
  /\ box.location = location /\ box.size = size

\* C12: the attach handles a mounted component returns (locationRef and
\* sizeRef of the two trackers, ref of useBox) are the same functions on
\* every render, whatever was stored between the renders.
C12_StableHandles == [][handles' = handles]_vars

\* renders have run after an element, a Size and a Location were stored, and
\* the handles are those of the first render
C12_Witness ==
  /\ mounted /\ phase = "idle"
  /\ r.locNode = "e2" /\ r.sizeNode = "e2"
  /\ r.size # SizeOf(1, 0, 0)
  /\ r.location # LocationOf(1, 0, 0)
  /\ handles = [locationRef |-> 1, sizeRef |-> 1, ref |-> 1]

\* C13: the stored Size changes in resize reports only and the stored
\* Location in ticks only: a step that changes the Size is a resize report
\* and not a tick, a step that changes the Location is a tick and not a
\* resize report.
C13_SeparateWriters ==
  [][LET \* a tick stores or keeps a Location with the x and y it read, a
         \* report a Size with the width and height reported
         tick == \E t \in timers : Tick(t, location'.x, location'.y)
         report == \E o \in observers : ResizeNotify(o, size'.width, size'.height)
     IN  /\ size' # size => report /\ ~tick
         /\ location' # location => tick /\ ~report]_vars

\* both subscriptions are live and each has replaced the value it writes
C13_Witness ==
  /\ timers # {} /\ observers # {}
  /\ size.width = 1 /\ size.height = 0
  /\ location.x = 0 /\ location.y = 1

\* C14 as stated: every tick reads the element that is stored at that moment.
C14_TickReadsStoredElement ==
  [][\A t \in timers : \A x \in Coords, y \in Coords :
       TracedTick(t, x, y) => lastRead'.target = locNode]_vars

\* C14: every tick that fires while no effect is pending reads the element
\* the last render read, which is the stored element unless the attach handle
\* was called since that render: once the render that read a new element has
\* run its effects, no tick reads the element bound before.
C14_TickReadsRenderedElement ==
  [][\A t \in timers : \A x \in Coords, y \in Coords :
       TracedTick(t, x, y) /\ phase = "idle" =>
         /\ lastRead'.target = r.locNode
         /\ (Settled => lastRead'.target = locNode)]_vars

\* the element was replaced, the effects have run and a tick has read the
\* element stored now
C14_Witness ==
  /\ script = 3 /\ Settled
  /\ lastRead.target = locNode
  /\ lastRead.x = 1 /\ lastRead.y = 1

\* C15: while no element has been passed to the attach handle (none is
\* stored), no resize observer and no timer exists, no cleanup is held, and
\* the stored Size and Location are the initial (0, 0) and origin, whatever
\* renders, flushes and calls with null have happened.
C15_NothingBeforeAttach ==
  locNode = NULL /\ sizeNode = NULL =>
    /\ observers = {} /\ timers = {}
    /\ sizeCleanup = NONE /\ locCleanup = NONE
    /\ size = SizeOf(1, 0, 0)
    /\ location = LocationOf(1, 0, 0)

\* the effects of the first render have run with no element stored
C15_Witness ==
  /\ mounted /\ phase = "idle"
  /\ locNode = NULL /\ sizeNode = NULL
  /\ r.locNode = NULL /\ r.sizeNode = NULL
  /\ ~pendingLoc /\ ~pendingSize

\* C16: a render that reads the element the render before read schedules no
\* effect of useLocation, whatever period it passes; a timer is created only
\* by a scheduled effect, for the element and with the period its render
\* read; and a timer goes away only at unmount or when the last render read
\* another element than its own. So a timer outlives any change of the
\* period alone, with the period it was created with.
C16_TimerFollowsElementOnly ==
  [][/\ \A p \in DelayProps :
          RenderWith(p) /\ locNode = r.locNode => ~pendingLoc' /\ timers' = timers
     /\ \A t \in timers' \ timers :
          /\ pendingLoc
          /\ t.target = r.locNode
          /\ t.delay = props.refreshDelayInMs
     /\ \A t \in timers :
          t \in timers' \/ ~mounted' \/ r.locNode # t.target]_vars

\* a render passed another period for the same element and its flush is
\* over: the timer still has the period it was created with
C16_Witness ==
  /\ Settled
  /\ \E t \in timers :
       /\ t.target = locNode
       /\ t.delay = DefaultRefreshDelayInMs
       /\ props.refreshDelayInMs = OtherRefreshDelayInMs

\* the calls a keydown with the code `code` is to make under the arguments p
ExpectedCalls(p, code) ==
  [a \in Actions |->
     IF p.allowInput /\ code = p.keyCode /\ a = p.action THEN 1 ELSE 0]

\* C17 as stated: every keydown calls the action of the last render once if
\* its code is the keyCode of the last render and allowInput is true, and
\* calls nothing otherwise; at most one listener is registered, and none
\* while allowInput is false or after unmount.
C17_KeyPressAsStated ==
  /\ [][\A code \in KeyCodes :
          KeyDown(code) =>
            invoked' = IF mounted THEN ExpectedCalls(props, code) ELSE NoneInvoked]_vars
  /\ [](/\ Cardinality(keyListeners) <= 1
        /\ (~mounted \/ ~props.allowInput => keyListeners = {}))

\* C17: once the effects of the last render have run, a keydown calls the
\* action of that render once if its code is the keyCode of that render and
\* allowInput is true, and calls nothing otherwise; after unmount a keydown
\* calls nothing. In every state at most one listener is registered; none is
\* registered after unmount, nor while allowInput is false once the effects
\* of the render that read it have run.
C17_KeyPressOnceSettled ==
  /\ [][\A code \in KeyCodes :
          KeyDown(code) /\ (phase = "idle" \/ ~mounted) =>
            invoked' = IF mounted THEN ExpectedCalls(props, code) ELSE NoneInvoked]_vars
  /\ [](/\ Cardinality(keyListeners) <= 1
        /\ (~mounted => keyListeners = {})
        /\ (phase = "idle" /\ ~props.allowInput => keyListeners = {}))

\* renders have changed the key code and the action, the effects have run,
\* and the last keydown called the new action once
C17_Witness ==
  /\ mounted /\ phase = "idle"
  /\ props.keyCode = "KeyB" /\ props.action = "a2" /\ props.allowInput
  /\ invoked = [a \in Actions |-> IF a = "a2" THEN 1 ELSE 0]
  /\ Cardinality(keyListeners) = 1

\* C18: once the effects of the last render have run, one wheel listener is
\* registered, on the element that render read, if it read an element and
\* allowInput is true, and none is registered otherwise: the listener of a
\* replaced element or of a render with allowInput true is gone from the
\* element it was added to. So a wheel event that arrives while allowInput is
\* false, after those effects, calls nothing and leaves the zoom as it is.
C18_WheelListenerFollowsInput ==
  /\ [](phase = "idle" /\ mounted =>
          wheelListeners = IF r.wheelNode # NULL /\ props.allowZoom
                             THEN {[id |-> 1, target |-> r.wheelNode]} ELSE {})
  /\ [](~mounted => wheelListeners = {})
  /\ [][\A e \in Elems : \A amount \in WheelAmounts :
          Wheel(e, amount) /\ phase = "idle" /\ ~props.allowZoom =>
            wheelCalls' = 0 /\ zoom' = zoom]_vars

\* the zoom was changed through the listener on e1, then the element was
\* replaced by e2 and allowInput set to false, and after the effects a wheel
\* event called nothing
C18_Witness ==
  /\ mounted /\ phase = "idle"
  /\ wheelNode = "e2" /\ r.wheelNode = "e2"
  /\ ~props.allowZoom
  /\ wheelListeners = {}
  /\ zoom = [num |-> 9, den |-> 10]
  /\ wheelCalls = 0

====
